---- MODULE Spec2Model ----
(***************************************************************************)
(* State-machine model of gemini_agario.py: the frame loop of main() with  *)
(* the Player, Food and camera arithmetic.                                 *)
(*                                                                         *)
(* Numbers.  The program computes with floats.  Here every length is a     *)
(* fixed-point number with SCALE steps per world unit (SCALE = 10, the     *)
(* denominator of PLAYER_SPEED_FACTOR = 0.1), so a length of 20 world      *)
(* units is the integer 200.  sqrt rounds down to that grid.  Mass is kept *)
(* in whole square world units (400, 425, ...).  Times are milliseconds.   *)
(* The pointer positions offered to the loop put the target on one of the  *)
(* player's axes, where dx / distance is exactly 1, 0 or -1 and the        *)
(* fixed-point step is the float step.                                     *)
(***************************************************************************)
EXTENDS Integers, Sequences, FiniteSets, TLC

VARIABLES running, player, food_list, camera_x, camera_y, gemini_available,
          gemini_request_in_progress, eaten_food_indices, i, pc, frames,
          shown_total, shown_elapsed

\* shown_total and shown_elapsed are history variables: the timer value of
\* the last annotation that was set (0 before the first), and the sum of the
\* dt values update_description_timer has subtracted from it since.
vars == <<running, player, food_list, camera_x, camera_y, gemini_available,
          gemini_request_in_progress, eaten_food_indices, i, pc, frames,
          shown_total, shown_elapsed>>

(* ------------------------------ constants ------------------------------ *)

SCALE == 10
MILLIS == 1000

SCREEN_WIDTH == 800
SCREEN_HEIGHT == 600
WORLD_WIDTH == 2000
WORLD_HEIGHT == 2000
INITIAL_PLAYER_RADIUS == 20
\* 0.1, as a number of 1/SCALE steps
PLAYER_SPEED_FACTOR == 1
\* the 0.1 of "speed = max(speed, 0.1)", as a number of 1/SCALE steps
MIN_SPEED == 1
MIN_PLAYER_RADIUS == 5
FOOD_RADIUS == 5
DESCRIPTION_DURATION == 5
\* the 2 seconds of the "Getting description..." and "Gemini error :(" texts
SHORT_DURATION == 2

(* ------------------------------- bounds -------------------------------- *)

\* size of the food population (200 in the source, line 49)
FOOD_COUNT == 2
\* number of frames of the main loop that are explored
MaxFrames == 2
\* largest food radius tried when the consumption test is varied
MaxFoodRadius == 6

\* largest |mass_increase| passed to grow when grow is called on its own
MaxMassDelta == 25
\* number of calls of grow when grow is called on its own
MaxGrowCalls == 2

\* largest distance of the fixed target from the start, per axis, in 1/SCALE
\* steps, when move is called on its own
MaxTargetOffset == 20

(* ------------------------------- inputs -------------------------------- *)

\* positions random.uniform can return for a Food, in 1/SCALE steps
FoodSpots == { <<50, 0>>, <<120, 160>>, <<9998, 0>> }

\* pygame.mouse.get_pos(): one pixel right of the centre of the window (a
\* target exactly 1 world unit from a player the camera is centred on), the
\* middle of the right edge and the middle of the bottom edge
MousePositions == { <<401, 300>>, <<800, 300>>, <<400, 600>> }

\* clock.tick(60): a frame at 60 fps and a slow frame, in milliseconds
DtValues == { 17, 2000 }

\* Player positions at the start of the explored frames: the origin, where
\* Player.__init__ puts it, and a point 0.2 world units from the right-hand
\* clamp line, which the player reaches from the origin by 9798 steps of
\* 0.1 to the right.
StartPositions == { <<0, 0>>, <<9798, 0>> }

(* ------------------------------ arithmetic ----------------------------- *)

Max(a, b) == IF a >= b THEN a ELSE b
Min(a, b) == IF a <= b THEN a ELSE b
Abs(a) == IF a >= 0 THEN a ELSE -a

\* a / b rounded toward zero
TruncDiv(a, b) == IF a >= 0 THEN a \div b ELSE -((-a) \div b)

RECURSIVE SqrtSearch(_, _, _)
\* largest r in lo..hi-1 with r*r <= n, given lo*lo <= n < hi*hi
SqrtSearch(n, lo, hi) ==
  IF hi - lo <= 1 THEN lo
  ELSE LET mid == (lo + hi) \div 2
       IN  IF mid * mid <= n THEN SqrtSearch(n, mid, hi) ELSE SqrtSearch(n, lo, mid)

\* math.sqrt, rounded down to an integer
Sqrt(n) == SqrtSearch(n, 0, Min(n + 1, 46341))

(* ------------------------------ Food, Player --------------------------- *)

\* Food.__init__ with the position random.uniform returned
Food(pos) == [x |-> pos[1], y |-> pos[2], radius |-> FOOD_RADIUS * SCALE]

\* Player.__init__ (GameObject.__init__ included); name and color are not modelled
Player_init ==
  LET radius == INITIAL_PLAYER_RADIUS * SCALE
  IN  [x |-> 0, y |-> 0, radius |-> radius,
       mass |-> (radius * radius) \div (SCALE * SCALE),
       target_x |-> 0, target_y |-> 0,
       gemini_description |-> "", description_timer |-> 0]

update_target(p, mouse_x, mouse_y, cam_x, cam_y) ==
  [p EXCEPT !.target_x = mouse_x * SCALE + cam_x,
            !.target_y = mouse_y * SCALE + cam_y]

\* speed = max(PLAYER_SPEED_FACTOR * (INITIAL_PLAYER_RADIUS / radius), 0.1)
Speed(radius) ==
  Max(TruncDiv(PLAYER_SPEED_FACTOR * INITIAL_PLAYER_RADIUS * SCALE, radius), MIN_SPEED)

\* max(-WORLD/2 + radius, min(WORLD/2 - radius, v))
Clamp(v, world, radius) ==
  Max(-((world * SCALE) \div 2) + radius, Min((world * SCALE) \div 2 - radius, v))

\* move without the normalisation of the direction: the step is dx * speed
moveUnnormalised(p) ==
  LET dx == p.target_x - p.x
      dy == p.target_y - p.y
      distance == Sqrt(dx * dx + dy * dy)
  IN  IF distance > 1 * SCALE
      THEN LET speed == Speed(p.radius)
           IN  [p EXCEPT !.x = Clamp(p.x + dx * speed, WORLD_WIDTH, p.radius),
                         !.y = Clamp(p.y + dy * speed, WORLD_HEIGHT, p.radius)]
      ELSE p

\* move with the step subtracted instead of added
moveAway(p) ==
  LET dx == p.target_x - p.x
      dy == p.target_y - p.y
      distance == Sqrt(dx * dx + dy * dy)
  IN  IF distance > 1 * SCALE
      THEN LET speed == Speed(p.radius)
               move_x == TruncDiv(dx * speed, distance)
               move_y == TruncDiv(dy * speed, distance)
           IN  [p EXCEPT !.x = Clamp(p.x - move_x, WORLD_WIDTH, p.radius),
                         !.y = Clamp(p.y - move_y, WORLD_HEIGHT, p.radius)]
      ELSE p

move(p) ==
  LET dx == p.target_x - p.x
      dy == p.target_y - p.y
      distance == Sqrt(dx * dx + dy * dy)
  IN  IF distance > 1 * SCALE
      THEN LET speed == Speed(p.radius)
               move_x == TruncDiv(dx * speed, distance)
               move_y == TruncDiv(dy * speed, distance)
           IN  [p EXCEPT !.x = Clamp(p.x + move_x, WORLD_WIDTH, p.radius),
                         !.y = Clamp(p.y + move_y, WORLD_HEIGHT, p.radius)]
      ELSE p

\* grow without the recomputation of the radius
growStaleRadius(p, mass_increase) == [p EXCEPT !.mass = p.mass + mass_increase]

\* mass_increase in square world units
grow(p, mass_increase) ==
  LET mass == p.mass + mass_increase
  IN  [p EXCEPT !.mass = mass,
                !.radius = Max(Sqrt(mass * SCALE * SCALE), MIN_PLAYER_RADIUS * SCALE)]

\* eat with the radius-sum test the comment in Player.eat mentions
eatRadiusSum(p, food) ==
  LET distance == Sqrt((p.x - food.x) * (p.x - food.x) + (p.y - food.y) * (p.y - food.y))
  IN  IF distance < p.radius + food.radius
      THEN [player |-> grow(p, (food.radius * food.radius) \div (SCALE * SCALE)),
            eaten |-> TRUE]
      ELSE [player |-> p, eaten |-> FALSE]

\* eat that grows by the food's radius instead of its square
eatRadiusGain(p, food) ==
  LET distance == Sqrt((p.x - food.x) * (p.x - food.x) + (p.y - food.y) * (p.y - food.y))
  IN  IF distance < p.radius
      THEN [player |-> grow(p, food.radius \div SCALE), eaten |-> TRUE]
      ELSE [player |-> p, eaten |-> FALSE]

\* Player.eat: the player after the call and the value returned
eat(p, food) ==
  LET distance == Sqrt((p.x - food.x) * (p.x - food.x) + (p.y - food.y) * (p.y - food.y))
  IN  IF distance < p.radius
      THEN [player |-> grow(p, (food.radius * food.radius) \div (SCALE * SCALE)),
            eaten |-> TRUE]
      ELSE [player |-> p, eaten |-> FALSE]

\* update_description_timer that clears the text only below zero
update_description_timerStrict(p, dt) ==
  IF p.description_timer > 0
  THEN LET t == p.description_timer - dt
       IN  [p EXCEPT !.description_timer = t,
                     !.gemini_description = IF t < 0 THEN "" ELSE @]
  ELSE p

update_description_timer(p, dt) ==
  IF p.description_timer > 0
  THEN LET t == p.description_timer - dt
       IN  [p EXCEPT !.description_timer = t,
                     !.gemini_description = IF t <= 0 THEN "" ELSE @]
  ELSE p

(* ------------------------------ main: helpers -------------------------- *)

\* the camera offset for a player position: centre on the player, then clamp
CameraFollow(p) ==
  LET cx == p.x - (SCREEN_WIDTH * SCALE) \div 2
      cy == p.y - (SCREEN_HEIGHT * SCALE) \div 2
      wx == (WORLD_WIDTH * SCALE) \div 2
      wy == (WORLD_HEIGHT * SCALE) \div 2
      sx == (SCREEN_WIDTH * SCALE) \div 2
      sy == (SCREEN_HEIGHT * SCALE) \div 2
  IN  << Max(-wx + sx, Min(wx - sx, cx)), Max(-wy + sy, Min(wy - sy, cy)) >>

\* list.pop(k) on a 1-based sequence
Pop(list, k) == [j \in 1 .. Len(list) - 1 |-> IF j < k THEN list[j] ELSE list[j + 1]]

\* sorted(...) without reverse=True: the indices stay in ascending order
ReverseForgotten(s) == s

Reverse(s) == [j \in 1 .. Len(s) |-> s[Len(s) + 1 - j]]

RECURSIVE RemoveAndRespawnOnce(_, _, _)
\* the loop with the append after it instead of inside it
RemoveAndRespawnOnce(list, idxs, news) ==
  IF idxs = << >> THEN list
  ELSE IF Len(idxs) = 1 THEN Append(Pop(list, Head(idxs)), Food(Head(news)))
  ELSE RemoveAndRespawnOnce(Pop(list, Head(idxs)), Tail(idxs), Tail(news))

RECURSIVE RemoveAndRespawn(_, _, _)
\* for i in sorted(eaten_food_indices, reverse=True): pop(i); append(Food())
\* idxs: the indices still to be handled, in the order of the loop;
\* news: the positions of the replacements, in the order they are drawn
RemoveAndRespawn(list, idxs, news) ==
  IF idxs = << >> THEN list
  ELSE RemoveAndRespawn(Append(Pop(list, Head(idxs)), Food(Head(news))),
                        Tail(idxs), Tail(news))

RECURSIVE EatLoop(_, _, _, _)
\* the eat loop from index k on: the player and eaten_food_indices after it
EatLoop(p, foods, k, eaten) ==
  IF k > Len(foods) THEN [player |-> p, eaten |-> eaten]
  ELSE LET r == eat(p, foods[k])
       IN  EatLoop(r.player, foods, k + 1, IF r.eaten THEN Append(eaten, k) ELSE eaten)

\* text returned by the model, after strip() and the removal of quotes
Responses == { "a tiny blue blob with big dreams" }

(* ------------------------------ Init ----------------------------------- *)

\* spawn_food(FOOD_COUNT)
spawn_food == { [k \in 1 .. FOOD_COUNT |-> Food(f[k])] : f \in [1 .. FOOD_COUNT -> FoodSpots] }

Init ==
  /\ running = TRUE
  /\ gemini_available \in BOOLEAN
  /\ gemini_request_in_progress = FALSE
  /\ \E s \in StartPositions :
       /\ player = [Player_init EXCEPT !.x = s[1], !.y = s[2],
                                       !.target_x = s[1], !.target_y = s[2]]
       /\ food_list \in spawn_food
       \* away from the origin the frame before has eaten what was in reach
       /\ s # <<0, 0>> => \A k \in 1 .. FOOD_COUNT : ~ eat(player, food_list[k]).eaten
  /\ camera_x = CameraFollow(player)[1]
  /\ camera_y = CameraFollow(player)[2]
  /\ eaten_food_indices = << >>
  /\ i = 1
  /\ pc = "events"
  /\ frames = 0
  /\ shown_total = 0
  /\ shown_elapsed = 0

(* ------------------------------ event handling ------------------------- *)

\* pygame.QUIT
HandleQuit ==
  /\ pc = "events" /\ frames < MaxFrames
  /\ running' = FALSE
  /\ UNCHANGED <<player, food_list, camera_x, camera_y, gemini_available,
                 gemini_request_in_progress, eaten_food_indices, i, pc, frames, shown_total, shown_elapsed>>

\* KEYDOWN K_ESCAPE
HandleEscape ==
  /\ pc = "events" /\ frames < MaxFrames
  /\ running' = FALSE
  /\ UNCHANGED <<player, food_list, camera_x, camera_y, gemini_available,
                 gemini_request_in_progress, eaten_food_indices, i, pc, frames, shown_total, shown_elapsed>>

\* KEYDOWN K_g is taken from the event queue
FetchKeyG ==
  /\ pc = "events" /\ frames < MaxFrames
  /\ pc' = "key_g"
  /\ UNCHANGED <<running, player, food_list, camera_x, camera_y, gemini_available,
                 gemini_request_in_progress, eaten_food_indices, i, frames,
                 shown_total, shown_elapsed>>

\* the condition of the K_g handler fails: nothing is done
IgnoreKeyG ==
  /\ pc = "key_g"
  /\ ~ (gemini_available /\ ~ gemini_request_in_progress)
  /\ pc' = "events"
  /\ UNCHANGED <<running, player, food_list, camera_x, camera_y, gemini_available,
                 gemini_request_in_progress, eaten_food_indices, i, frames,
                 shown_total, shown_elapsed>>

\* StartRequest without the test of gemini_available
StartRequestUnchecked ==
  /\ pc = "key_g"
  /\ ~ gemini_request_in_progress
  /\ gemini_request_in_progress' = TRUE
  /\ player' = [player EXCEPT !.gemini_description = "Getting description...",
                              !.description_timer = SHORT_DURATION * MILLIS]
  /\ shown_total' = SHORT_DURATION * MILLIS
  /\ shown_elapsed' = 0
  /\ pc' = "request"
  /\ UNCHANGED <<running, food_list, camera_x, camera_y, gemini_available,
                 eaten_food_indices, i, frames>>

\* StartRequest that hands the call to a thread and returns to the event loop
StartRequestInBackground ==
  /\ pc = "key_g"
  /\ gemini_available /\ ~ gemini_request_in_progress
  /\ gemini_request_in_progress' = TRUE
  /\ player' = [player EXCEPT !.gemini_description = "Getting description...",
                              !.description_timer = SHORT_DURATION * MILLIS]
  /\ shown_total' = SHORT_DURATION * MILLIS
  /\ shown_elapsed' = 0
  /\ pc' = "events"
  /\ UNCHANGED <<running, food_list, camera_x, camera_y, gemini_available,
                 eaten_food_indices, i, frames>>

\* the K_g handler up to the call GEMINI_MODEL.generate_content(prompt)
StartRequest ==
  /\ pc = "key_g"
  /\ gemini_available /\ ~ gemini_request_in_progress
  /\ gemini_request_in_progress' = TRUE
  /\ player' = [player EXCEPT !.gemini_description = "Getting description...",
                              !.description_timer = SHORT_DURATION * MILLIS]
  /\ shown_total' = SHORT_DURATION * MILLIS
  /\ shown_elapsed' = 0
  /\ pc' = "request"
  /\ UNCHANGED <<running, food_list, camera_x, camera_y, gemini_available,
                 eaten_food_indices, i, frames>>

\* generate_content returns: the rest of the try block, then finally
RequestSucceeds ==
  /\ pc = "request"
  /\ \E text \in Responses :
       player' = [player EXCEPT !.gemini_description = text,
                                !.description_timer = DESCRIPTION_DURATION * MILLIS]
  /\ shown_total' = DESCRIPTION_DURATION * MILLIS
  /\ shown_elapsed' = 0
  /\ gemini_request_in_progress' = FALSE
  /\ pc' = "events"
  /\ UNCHANGED <<running, food_list, camera_x, camera_y, gemini_available,
                 eaten_food_indices, i, frames>>

\* RequestFails with the exception ending the main loop
RequestFailsFatal ==
  /\ pc = "request"
  /\ player' = [player EXCEPT !.gemini_description = "Gemini error :(",
                              !.description_timer = SHORT_DURATION * MILLIS]
  /\ shown_total' = SHORT_DURATION * MILLIS
  /\ shown_elapsed' = 0
  /\ gemini_request_in_progress' = FALSE
  /\ running' = FALSE
  /\ pc' = "events"
  /\ UNCHANGED <<food_list, camera_x, camera_y, gemini_available,
                 eaten_food_indices, i, frames>>

\* RequestFails with the reset of the flag in the try block only (no finally)
RequestFailsNoFinally ==
  /\ pc = "request"
  /\ player' = [player EXCEPT !.gemini_description = "Gemini error :(",
                              !.description_timer = SHORT_DURATION * MILLIS]
  /\ shown_total' = SHORT_DURATION * MILLIS
  /\ shown_elapsed' = 0
  /\ pc' = "events"
  /\ UNCHANGED <<running, food_list, camera_x, camera_y, gemini_available,
                 gemini_request_in_progress, eaten_food_indices, i, frames>>

\* generate_content (or response.text) raises: the except block, then finally
RequestFails ==
  /\ pc = "request"
  /\ player' = [player EXCEPT !.gemini_description = "Gemini error :(",
                              !.description_timer = SHORT_DURATION * MILLIS]
  /\ shown_total' = SHORT_DURATION * MILLIS
  /\ shown_elapsed' = 0
  /\ gemini_request_in_progress' = FALSE
  /\ pc' = "events"
  /\ UNCHANGED <<running, food_list, camera_x, camera_y, gemini_available,
                 eaten_food_indices, i, frames>>

(* ------------------------------ game state updates --------------------- *)

\* mouse_x, mouse_y = pygame.mouse.get_pos(); player.update_target(...)
UpdateTarget ==
  /\ pc = "events" /\ frames < MaxFrames
  /\ \E m \in MousePositions :
       player' = update_target(player, m[1], m[2], camera_x, camera_y)
  /\ pc' = "move"
  /\ UNCHANGED <<running, food_list, camera_x, camera_y, gemini_available,
                 gemini_request_in_progress, eaten_food_indices, i, frames, shown_total, shown_elapsed>>

\* player.move()
Move ==
  /\ pc = "move"
  /\ player' = move(player)
  /\ pc' = "camera"
  /\ UNCHANGED <<running, food_list, camera_x, camera_y, gemini_available,
                 gemini_request_in_progress, eaten_food_indices, i, frames, shown_total, shown_elapsed>>

\* Follow run before the move of the frame: the camera keeps the offset
\* computed from the position before the move
FollowBeforeMove ==
  /\ pc = "camera"
  /\ eaten_food_indices' = << >>
  /\ i' = 1
  /\ pc' = IF Len(food_list) = 0 THEN "respawn" ELSE "eat"
  /\ UNCHANGED <<running, player, food_list, camera_x, camera_y, gemini_available,
                 gemini_request_in_progress, frames, shown_total, shown_elapsed>>

\* the camera update, then eaten_food_indices = [] at the head of the eat loop
Follow ==
  /\ pc = "camera"
  /\ camera_x' = CameraFollow(player)[1]
  /\ camera_y' = CameraFollow(player)[2]
  /\ eaten_food_indices' = << >>
  /\ i' = 1
  /\ pc' = IF Len(food_list) = 0 THEN "respawn" ELSE "eat"
  /\ UNCHANGED <<running, player, food_list, gemini_available,
                 gemini_request_in_progress, frames, shown_total, shown_elapsed>>

\* one iteration of "for i, food in enumerate(food_list)"
EatStep ==
  /\ pc = "eat"
  /\ LET r == eat(player, food_list[i])
     IN  /\ player' = r.player
         /\ eaten_food_indices' =
              IF r.eaten THEN Append(eaten_food_indices, i) ELSE eaten_food_indices
  /\ i' = i + 1
  /\ pc' = IF i = Len(food_list) THEN "respawn" ELSE "eat"
  /\ UNCHANGED <<running, food_list, camera_x, camera_y, gemini_available,
                 gemini_request_in_progress, frames, shown_total, shown_elapsed>>

\* the whole remove-and-respawn loop
Respawn ==
  /\ pc = "respawn"
  /\ \E news \in [1 .. Len(eaten_food_indices) -> FoodSpots] :
       food_list' = RemoveAndRespawn(food_list, Reverse(eaten_food_indices), news)
  /\ pc' = "tick"
  /\ UNCHANGED <<running, player, camera_x, camera_y, gemini_available,
                 gemini_request_in_progress, eaten_food_indices, i, frames, shown_total, shown_elapsed>>

\* player.update_description_timer(dt), the drawing (no state), and the
\* test of "while running"
Tick ==
  /\ pc = "tick"
  /\ \E dt \in DtValues :
       /\ player' = update_description_timer(player, dt)
       /\ shown_elapsed' =
            IF player.description_timer > 0 THEN shown_elapsed + dt ELSE shown_elapsed
  /\ frames' = frames + 1
  /\ pc' = IF running THEN "events" ELSE "done"
  /\ UNCHANGED <<running, food_list, camera_x, camera_y, gemini_available,
                 gemini_request_in_progress, eaten_food_indices, i, shown_total>>

Next ==
  \/ HandleQuit
  \/ HandleEscape
  \/ FetchKeyG
  \/ IgnoreKeyG
  \/ StartRequest
  \/ RequestSucceeds
  \/ RequestFails
  \/ UpdateTarget
  \/ Move
  \/ Follow
  \/ EatStep
  \/ Respawn
  \/ Tick

Spec == Init /\ [][Next]_vars

(* ------------------------------ grow on its own ------------------------ *)

\* a freshly constructed player; nothing else of main is running
InitGrow ==
  /\ running = TRUE
  /\ gemini_available = FALSE
  /\ gemini_request_in_progress = FALSE
  /\ player = Player_init
  /\ food_list \in spawn_food
  /\ camera_x = CameraFollow(player)[1]
  /\ camera_y = CameraFollow(player)[2]
  /\ eaten_food_indices = << >>
  /\ i = 1
  /\ pc = "grow"
  /\ frames = 0
  /\ shown_total = 0
  /\ shown_elapsed = 0

\* player.grow(mass_increase) with any mass_increase, negative ones included
GrowCall ==
  /\ pc = "grow" /\ frames < MaxGrowCalls
  /\ \E mass_increase \in -MaxMassDelta .. MaxMassDelta :
       player' = grow(player, mass_increase)
  /\ frames' = frames + 1
  /\ UNCHANGED <<running, food_list, camera_x, camera_y, gemini_available,
                 gemini_request_in_progress, eaten_food_indices, i, pc,
                 shown_total, shown_elapsed>>

NextGrow == GrowCall

SpecGrow == InitGrow /\ [][NextGrow]_vars

(* ------------------------------ move on its own ------------------------ *)

\* Players move is called on: the initial player, and the player that has
\* grown to mass 425 at (979.9, 0), outside the clamp region of its new radius
MoveStarts ==
  { Player_init,
    [grow(Player_init, FOOD_RADIUS * FOOD_RADIUS) EXCEPT !.x = 9799] }

\* the targets held fixed for p: the points of the clamp region of p that lie
\* on the two axes through p, up to MaxTargetOffset away from it
FixedTargets(p) ==
  LET near == -MaxTargetOffset .. MaxTargetOffset
  IN  { t \in { <<p.x + k, p.y>> : k \in near } \cup { <<p.x, p.y + k>> : k \in near } :
          /\ t[1] = Clamp(t[1], WORLD_WIDTH, p.radius)
          /\ t[2] = Clamp(t[2], WORLD_HEIGHT, p.radius) }

InitMove ==
  /\ running = TRUE
  /\ gemini_available = FALSE
  /\ gemini_request_in_progress = FALSE
  /\ \E p \in MoveStarts : \E t \in FixedTargets(p) :
       player = [p EXCEPT !.target_x = t[1], !.target_y = t[2]]
  /\ food_list = << >>
  /\ camera_x = CameraFollow(player)[1]
  /\ camera_y = CameraFollow(player)[2]
  /\ eaten_food_indices = << >>
  /\ i = 1
  /\ pc = "move_call"
  /\ frames = 0
  /\ shown_total = 0
  /\ shown_elapsed = 0

\* player.move() with the target left as it is
MoveCall ==
  /\ pc = "move_call"
  /\ player' = move(player)
  /\ UNCHANGED <<running, food_list, camera_x, camera_y, gemini_available,
                 gemini_request_in_progress, eaten_food_indices, i, pc, frames,
                 shown_total, shown_elapsed>>

NextMove == MoveCall

\* the main loop calls move in every frame
SpecMove == InitMove /\ [][NextMove]_vars /\ WF_vars(MoveCall)

(* ------------------------------ properties ----------------------------- *)

DistSq(p, food) == (p.x - food.x) * (p.x - food.x) + (p.y - food.y) * (p.y - food.y)

\* the circle of radius r around (x, y) lies inside the world rectangle
InsideWorld(x, y, r) ==
  /\ Abs(x) <= (WORLD_WIDTH * SCALE) \div 2 - r
  /\ Abs(y) <= (WORLD_HEIGHT * SCALE) \div 2 - r

\* C1: the food collection holds exactly FOOD_COUNT items in every state,
\* in particular after every remove-and-respawn loop, whatever was eaten.
C1_FoodCountConstant == Len(food_list) = FOOD_COUNT

\* a pass that consumed two items has been followed by its respawn loop
C1_Witness ==
  /\ pc = "tick"
  /\ Len(eaten_food_indices) >= 2
  /\ Len(food_list) = FOOD_COUNT

\* C2: right after every call of Player.move the player lies within the
\* clamp region |x| <= WORLD_WIDTH/2 - radius, |y| <= WORLD_HEIGHT/2 - radius.
C2_ClampedAfterMove ==
  pc = "camera" => InsideWorld(player.x, player.y, player.radius)

\* C3: after the camera-follow step the viewport rectangle
\* [camera_x, camera_x + SCREEN_WIDTH] x [camera_y, camera_y + SCREEN_HEIGHT]
\* lies inside the world rectangle.
C3_ViewportInsideWorld ==
  pc = "eat" =>
    /\ camera_x >= -((WORLD_WIDTH * SCALE) \div 2)
    /\ camera_x + SCREEN_WIDTH * SCALE <= (WORLD_WIDTH * SCALE) \div 2
    /\ camera_y >= -((WORLD_HEIGHT * SCALE) \div 2)
    /\ camera_y + SCREEN_HEIGHT * SCALE <= (WORLD_HEIGHT * SCALE) \div 2

\* C4: at the start of a consumption pass, every permutation of the food
\* collection gives the same set of consumed items and the same mass and
\* radius of the player as the order the collection has.
C4_OrderIndependent ==
  (pc = "eat" /\ i = 1) =>
    \A perm \in Permutations(1 .. Len(food_list)) :
      LET permuted == [k \in 1 .. Len(food_list) |-> food_list[perm[k]]]
          a == EatLoop(player, food_list, 1, << >>)
          b == EatLoop(player, permuted, 1, << >>)
      IN  /\ b.player.mass = a.player.mass
          /\ b.player.radius = a.player.radius
          /\ { perm[b.eaten[k]] : k \in 1 .. Len(b.eaten) }
               = { a.eaten[k] : k \in 1 .. Len(a.eaten) }

\* C5: a call of Player.eat consumes the food (its index is appended to
\* eaten_food_indices) if and only if the squared distance between the
\* centres is smaller than the square of the player's radius at the call,
\* and the value eat returns is the same for every radius of the food.
C5_EatIffWithinRadius ==
  [][ pc = "eat" =>
        LET food == food_list[i]
            within == DistSq(player, food) < player.radius * player.radius
        IN  /\ (Len(eaten_food_indices') = Len(eaten_food_indices) + 1) <=> within
            /\ Len(eaten_food_indices') = Len(eaten_food_indices) <=> ~ within
            /\ \A rad \in 1 .. MaxFoodRadius :
                 eat(player, [food EXCEPT !.radius = rad * SCALE]).eaten <=> within
    ]_vars

\* a food at a distance equal to the player's radius was tested and not consumed
C5_Witness ==
  /\ pc \in {"eat", "respawn"}
  /\ i > 1
  /\ DistSq(player, food_list[i - 1]) = player.radius * player.radius
  /\ \A k \in 1 .. Len(eaten_food_indices) : eaten_food_indices[k] # i - 1

\* C6: in every state the radius is max(sqrt(mass), MIN_PLAYER_RADIUS).
C6_RadiusFromMass ==
  player.radius = Max(Sqrt(player.mass * SCALE * SCALE), MIN_PLAYER_RADIUS * SCALE)

\* the player has grown twice
C6_Witness ==
  /\ player.mass = INITIAL_PLAYER_RADIUS * INITIAL_PLAYER_RADIUS + 2 * FOOD_RADIUS * FOOD_RADIUS
  /\ player.radius > INITIAL_PLAYER_RADIUS * SCALE

\* C7: a step of the eat loop that consumes its item adds FOOD_RADIUS^2 to
\* the mass, a step that does not leaves mass and radius as they are, and
\* no other step of the program changes the mass or the radius.
C7_MassGain ==
  [][ IF pc = "eat"
      THEN LET n == Len(eaten_food_indices') - Len(eaten_food_indices)
           IN  /\ n \in {0, 1}
               /\ player'.mass = player.mass + n * FOOD_RADIUS * FOOD_RADIUS
               /\ n = 0 => player'.radius = player.radius
      ELSE /\ player'.mass = player.mass
           /\ player'.radius = player.radius
    ]_vars

\* the pass of a player of mass 400 has consumed one item: the mass is 425
C7_Witness ==
  /\ pc = "respawn"
  /\ Len(eaten_food_indices) = 1
  /\ player.mass = 425

\* C8: the player and every food lie with their full radius inside the world.
C8_AllInsideWorld ==
  /\ InsideWorld(player.x, player.y, player.radius)
  /\ \A k \in 1 .. Len(food_list) :
       InsideWorld(food_list[k].x, food_list[k].y, food_list[k].radius)

\* C9: a call of Player.move leaves the position as it is when the target
\* is at most 1 unit away; otherwise, when the new position is inside the
\* clamp region (no clamp applied), the displacement has length
\* speed = max(PLAYER_SPEED_FACTOR * INITIAL_PLAYER_RADIUS / radius, 0.1),
\* points to the target and is shorter than the distance to the target.
C9_SpeedLimitedMove ==
  [][ pc = "move" =>
        LET dx == player.target_x - player.x
            dy == player.target_y - player.y
            mx == player'.x - player.x
            my == player'.y - player.y
            speed == Max(TruncDiv(PLAYER_SPEED_FACTOR * INITIAL_PLAYER_RADIUS * SCALE,
                                  player.radius), MIN_SPEED)
            unclamped ==
              /\ Abs(player'.x) < (WORLD_WIDTH * SCALE) \div 2 - player.radius
              /\ Abs(player'.y) < (WORLD_HEIGHT * SCALE) \div 2 - player.radius
        IN  /\ dx * dx + dy * dy <= SCALE * SCALE => (mx = 0 /\ my = 0)
            /\ (dx * dx + dy * dy > SCALE * SCALE /\ unclamped) =>
                 /\ mx * mx + my * my = speed * speed
                 /\ mx * dy = my * dx
                 /\ mx * dx + my * dy > 0
                 /\ mx * mx + my * my < dx * dx + dy * dy
    ]_vars

\* the player has made one step of length speed to the right toward a target
\* half a screen width away
C9_Witness ==
  /\ pc = "camera"
  /\ player.target_y = player.y
  /\ player.target_x - player.x = (SCREEN_WIDTH * SCALE) \div 2 - Speed(player.radius)

\* C10: a player that has grown beyond its initial radius moves with a
\* smaller speed than a player of the initial radius.
C10_SlowerWhenLarger ==
  player.radius > INITIAL_PLAYER_RADIUS * SCALE =>
    Speed(player.radius) < Speed(INITIAL_PLAYER_RADIUS * SCALE)

\* C11: once an annotation with timer T > 0 has been set, its text is
\* non-empty exactly while the sum of the dt values ticked since is smaller
\* than T, and a tick on a cleared annotation changes neither text nor timer.
C11_AnnotationCountdown ==
  [][ /\ shown_total' > 0 =>
           (player'.gemini_description # "" <=> shown_elapsed' < shown_total')
      /\ (pc = "tick" /\ player.gemini_description = "") =>
           /\ player'.gemini_description = ""
           /\ player'.description_timer = player.description_timer
    ]_vars

\* the ticks since the annotation was set add up to exactly its timer: cleared
C11_Witness ==
  /\ shown_total > 0
  /\ shown_elapsed = shown_total
  /\ player.gemini_description = ""

FrameStep == UpdateTarget \/ Move \/ Follow \/ EatStep \/ Respawn \/ Tick

\* C13: the request does not block the frame loop: whenever a request is
\* outstanding a simulation step of the frame can be taken.
C13_NeverBlocks == gemini_request_in_progress => ENABLED FrameStep

\* C13, amended: the request blocks the frame loop: every step taken while a
\* request is outstanding is the application of its result, which clears
\* the flag and leaves position, mass, radius, target, foods, camera and
\* the frame count as they are.
C13_RequestBlocksFrame ==
  [][ gemini_request_in_progress =>
        /\ ~ gemini_request_in_progress'
        /\ pc' = "events"
        /\ player'.gemini_description # "Getting description..."
        /\ [player' EXCEPT !.gemini_description = "", !.description_timer = 0]
             = [player EXCEPT !.gemini_description = "", !.description_timer = 0]
        /\ UNCHANGED <<food_list, camera_x, camera_y, eaten_food_indices, i, frames, running>>
    ]_vars

\* the frame has gone on after the result of a request was applied
C13_Witness ==
  /\ pc = "move"
  /\ player.gemini_description \in Responses
  /\ player.description_timer = DESCRIPTION_DURATION * MILLIS
  /\ ~ gemini_request_in_progress

\* C14: no call of grow lowers the mass (a negative mass_increase is
\* rejected), and a call that leaves the mass leaves the radius.
C14_GrowRejectsNegative ==
  [][ pc = "grow" =>
        /\ player'.mass >= player.mass
        /\ player'.mass = player.mass => player'.radius = player.radius
    ]_vars

\* C15: with gemini_available false, the handling of a K_g trigger returns
\* to the event loop and changes nothing else: annotation text and timer,
\* the in-flight flag, running, player, foods and camera stay as they are
\* and no request starts.
C15_UnavailableIsNoOp ==
  [][ (pc = "key_g" /\ ~ gemini_available) =>
        /\ pc' = "events"
        /\ UNCHANGED <<running, player, food_list, camera_x, camera_y, gemini_available,
                       gemini_request_in_progress, eaten_food_indices, i, frames>>
    ]_vars

\* a K_g trigger is being handled in the second frame with the service
\* unavailable; only the no-op branch can be taken
C15_Witness ==
  /\ pc = "key_g"
  /\ ~ gemini_available
  /\ frames >= 1
  /\ ENABLED IgnoreKeyG
  /\ ~ ENABLED StartRequest

\* the step that applies the failure of a request
FailureApplied == pc = "request" /\ player'.gemini_description \notin Responses

\* position, mass, radius, target, foods, camera and running are unchanged
SimulationUnchanged ==
  /\ [player' EXCEPT !.gemini_description = "", !.description_timer = 0]
       = [player EXCEPT !.gemini_description = "", !.description_timer = 0]
  /\ UNCHANGED <<food_list, camera_x, camera_y, eaten_food_indices, i, frames, running>>

\* C16: a failed request sets a non-empty placeholder text with the display
\* duration of a successful response (DESCRIPTION_DURATION), leaves running
\* as it is and changes no simulation state.
C16_FailureLikeSuccess ==
  [][ FailureApplied =>
        /\ player'.gemini_description # ""
        /\ player'.description_timer = DESCRIPTION_DURATION * MILLIS
        /\ SimulationUnchanged
    ]_vars

\* C16, amended: a failed request sets a non-empty placeholder text with a
\* display duration of 2 seconds, shorter than the DESCRIPTION_DURATION of
\* a successful response, leaves running as it is and changes no simulation
\* state; a tick takes dt off the placeholder's timer and clears the text
\* when the timer reaches zero, as for any other annotation.
C16_FailureShortPlaceholder ==
  [][ /\ FailureApplied =>
           /\ player'.gemini_description # ""
           /\ player'.description_timer = 2 * MILLIS
           /\ player'.description_timer < DESCRIPTION_DURATION * MILLIS
           /\ SimulationUnchanged
      /\ (pc = "tick" /\ player.gemini_description = "Gemini error :(") =>
           \E dt \in DtValues :
             /\ player'.description_timer = player.description_timer - dt
             /\ player'.gemini_description =
                  IF player.description_timer - dt <= 0 THEN "" ELSE "Gemini error :("
    ]_vars

\* the placeholder of a failed request is on display after a tick of 17 ms
C16_Witness ==
  /\ player.gemini_description = "Gemini error :("
  /\ player.description_timer = 2 * MILLIS - 17
  /\ running
  /\ pc = "events"

\* the order of the steps of a frame, as pairs of program positions
FrameOrder ==
  { <<"events", "events">>, <<"events", "key_g">>, <<"key_g", "events">>,
    <<"key_g", "request">>, <<"request", "events">>,
    <<"events", "move">>, <<"move", "camera">>, <<"camera", "eat">>,
    <<"eat", "eat">>, <<"eat", "respawn">>, <<"respawn", "tick">>,
    <<"tick", "events">>, <<"tick", "done">> }

\* C17: the steps of a frame run in the order target update, move, camera
\* follow, consumption, respawn, timer tick.  The position changes in the
\* move step only, so the consumption tests use the position of this
\* frame's move; after the follow step the camera offset is the one computed
\* from that position; the target set at the start of a frame is a pointer
\* position plus the camera offset the frame before left.
C17_FrameOrder ==
  [][ /\ <<pc, pc'>> \in FrameOrder
      /\ pc # "move" => (player'.x = player.x /\ player'.y = player.y)
      /\ pc # "camera" => (camera_x' = camera_x /\ camera_y' = camera_y)
      /\ pc' # "camera" => <<camera_x', camera_y'>> = CameraFollow(player')
      /\ (pc = "events" /\ pc' = "move") =>
           \E m \in MousePositions :
             /\ player'.target_x = m[1] * SCALE + camera_x
             /\ player'.target_y = m[2] * SCALE + camera_y
      /\ pc \notin {"events"} =>
           (player'.target_x = player.target_x /\ player'.target_y = player.target_y)
      /\ (pc = "eat" /\ Len(eaten_food_indices') > Len(eaten_food_indices)) =>
           DistSq(player, food_list[i]) < player.radius * player.radius
    ]_vars

\* a food out of reach before the move of the frame was consumed after it,
\* and the camera has followed to the new position
C17_Witness ==
  /\ pc = "respawn"
  /\ frames = 0
  /\ player.x = 9799
  /\ eaten_food_indices # << >>
  /\ camera_x = 9799 - (SCREEN_WIDTH * SCALE) \div 2

\* the items of list whose index is not in eaten, in the order of the list
Survivors(list, eaten) ==
  LET keep == { j \in 1 .. Len(list) : \A k \in 1 .. Len(eaten) : eaten[k] # j }
  IN  [k \in 1 .. Cardinality(keep) |->
         list[CHOOSE j \in keep : Cardinality({ m \in keep : m <= j }) = k]]

\* the list with every item marked by its index, so that items at the same
\* position are told apart (the objects of the Python list are distinct)
Marked(list) == [k \in 1 .. Len(list) |-> [list[k] EXCEPT !.radius = -k]]

\* C18: the remove-and-respawn loop keeps the items that were not consumed,
\* in their order and with their positions, removes every consumed item, and
\* puts the replacements behind them, one per consumed item and none of them
\* removed again; the eat loop has ended before (it tested the old items
\* only) and the frame goes on to the tick.  The food list changes in no
\* other step.
C18_RespawnExact ==
  [][ /\ pc = "respawn" =>
           LET n == Len(eaten_food_indices)
               m == Len(food_list)
           IN  /\ i = m + 1
               /\ pc' = "tick"
               /\ Len(food_list') = m
               /\ SubSeq(food_list', 1, m - n) = Survivors(food_list, eaten_food_indices)
               /\ \A k \in m - n + 1 .. m : food_list'[k] \in { Food(f) : f \in FoodSpots }
               /\ \A news \in [1 .. n -> FoodSpots] :
                    RemoveAndRespawn(Marked(food_list), Reverse(eaten_food_indices), news)
                      = Survivors(Marked(food_list), eaten_food_indices)
                          \o [k \in 1 .. n |-> Food(news[k])]
      /\ pc # "respawn" => food_list' = food_list
    ]_vars

\* the first item was consumed and replaced, the second has survived
C18_Witness ==
  /\ pc = "tick"
  /\ eaten_food_indices = <<1>>
  /\ Len(food_list) = FOOD_COUNT

\* squared distance of the player from its target
TargetDistSq(p) ==
  (p.target_x - p.x) * (p.target_x - p.x) + (p.target_y - p.y) * (p.target_y - p.y)

\* the player is within 1 unit of its target, where move returns at once
AtTarget ==
  \E d \in { <<player.target_x - player.x, player.target_y - player.y>> } :
    d[1] * d[1] + d[2] * d[2] <= SCALE * SCALE

\* C19: with the target fixed at a point of the clamp region, a call of move
\* that moves the player brings it strictly nearer to the target without
\* passing it, a call made within 1 unit of the target leaves the position,
\* and the player eventually is, and stays, within 1 unit of the target.
C19_MoveConverges ==
  /\ [][ pc = "move_call" =>
           /\ (player'.x # player.x \/ player'.y # player.y) =>
                /\ TargetDistSq(player') < TargetDistSq(player)
                /\ (player.target_x - player'.x) * (player.target_x - player.x)
                     + (player.target_y - player'.y) * (player.target_y - player.y) >= 0
           /\ AtTarget =>
                (player'.x = player.x /\ player'.y = player.y)
           /\ player'.target_x = player.target_x /\ player'.target_y = player.target_y
       ]_vars
  /\ <>[]AtTarget

\* the initial player has walked to a distance of 1 unit from a target to its right
C19_Witness ==
  /\ pc = "move_call"
  /\ player.mass = INITIAL_PLAYER_RADIUS * INITIAL_PLAYER_RADIUS
  /\ player.x > 0
  /\ player.y = 0
  /\ player.target_x - player.x = SCALE
  /\ player.target_y = 0

====
